---- MODULE Spec2Model ----
(***************************************************************************)
(* A model of src/main.py (FreeWeatherAPI and the report formatter).       *)
(*                                                                         *)
(* Python values are tagged records: None, numbers, strings, lists and     *)
(* dicts as json.loads builds them, plus a tag for a raised exception.     *)
(* Numbers are kept in tenths (5.5 is 55).  Time is kept in half seconds,  *)
(* the resolution of request_delay.                                        *)
(***************************************************************************)
EXTENDS Integers, Sequences, FiniteSets, TLC

VARIABLES
    enable_cache,   \* FreeWeatherAPI.enable_cache
    city,           \* FreeWeatherAPI.city
    hashseed,       \* the per-process salt of Python's str hash
    disk,           \* the cache files of the working directory: name -> file
    now,            \* time.time(), in half seconds
    pc,             \* where the running call stands
    frame,          \* the running _make_request call (url, params, attempt, caller)
    retval,         \* what the last _make_request returned (or raised)
    idx,            \* get_all_weather_data: index into api_functions
    results,        \* get_all_weather_data: the result mapping, in insertion order
    outcome,        \* per provider: what its adapter returned (or raised) in this pass
    log,            \* the GETs, sleeps and cache accesses of the running _make_request
    trace,          \* the invocations, GETs, sleeps and pauses of the running pass
    calls           \* how many top-level calls the caller has made

vars == <<enable_cache, city, hashseed, disk, now, pc, frame, retval, idx,
          results, outcome, log, trace, calls>>

----------------------------------------------------------------------------
(* Python values *)

None == [k |-> "none"]
Num(n) == [k |-> "num", v |-> n]
Str(s) == [k |-> "str", v |-> s]
Bool(b) == [k |-> "bool", v |-> b]
List(s) == [k |-> "list", v |-> s]
Dict(f) == [k |-> "dict", v |-> f]
Exc(e) == [k |-> "exc", v |-> e]

\* float('inf'), and an int above the largest float (ints have no bound)
Inf == [k |-> "inf"]
BigInt == [k |-> "bigint"]

\* The largest float has FloatDigits digits: a whole number with more
\* digits is above it.  HugeText is such a number, 10 ** FloatDigits.
FloatDigits == 309
HugeText ==
    "1000000000000000000000000000000000000000000000000000000000000000000000000000000000000000000000000000000000000000000000000000000000000000000000000000000000000000000000000000000000000000000000000000000000000000000000000000000000000000000000000000000000000000000000000000000000000000000000000000000000000000000000"

EmptyDict == Dict(<<>>)

IsExc(x) == x.k = "exc"

\* `x is None`
IsNone(x) == x = None

\* bool(x): the truth value `if x:` and `not x` test
Truthy(x) ==
    CASE x.k = "none" -> FALSE
      [] x.k = "num"  -> x.v # 0
      [] x.k = "str"  -> x.v # ""
      [] x.k = "bool" -> x.v
      [] x.k = "list" -> Len(x.v) # 0
      [] x.k = "dict" -> DOMAIN x.v # {}
      [] OTHER        -> TRUE

\* The characters of the strings that the model parses, encodes or matches
\* (TLC cannot index into a string).
Chars(s) ==
    CASE s = "" -> <<>>
      [] s = HugeText -> [i \in 1..(FloatDigits + 1) |-> IF i = 1 THEN "1" ELSE "0"]
      [] s = "x" -> <<"x">>
      [] s = "0" -> <<"0">>
      [] s = "7" -> <<"7">>
      [] s = "12" -> <<"1","2">>
      [] s = "20" -> <<"2","0">>
      [] s = "-3" -> <<"-","3">>
      [] s = "5.5" -> <<"5",".","5">>
      [] s = "current" -> <<"c","u","r","r","e","n","t">>
      [] s = "current_condition" ->
            <<"c","u","r","r","e","n","t","_","c","o","n","d","i","t","i","o","n">>
      [] s = "Vilnius" -> <<"V","i","l","n","i","u","s">>
      [] s = "New York" -> <<"N","e","w"," ","Y","o","r","k">>
      [] s = "http://" -> <<"h","t","t","p",":","/","/">>
      [] s = "https://" -> <<"h","t","t","p","s",":","/","/">>
      [] s = "http:/x" -> <<"h","t","t","p",":","/","x">>
      [] s = "HTTP://x" -> <<"H","T","T","P",":","/","/","x">>
      [] s = "ftp://x" -> <<"f","t","p",":","/","/","x">>
      [] s = "xhttp://x" -> <<"x","h","t","t","p",":","/","/","x">>
      [] s = "http://x" -> <<"h","t","t","p",":","/","/","x">>
      [] s = "https://wttr.in/" ->
            <<"h","t","t","p","s",":","/","/","w","t","t","r",".","i","n","/">>
      [] s = "https://wttr.in/Vilnius" ->
            <<"h","t","t","p","s",":","/","/","w","t","t","r",".","i","n","/",
              "V","i","l","n","i","u","s">>
      [] s = "https://wttr.in/New%20York" ->
            <<"h","t","t","p","s",":","/","/","w","t","t","r",".","i","n","/",
              "N","e","w","%","2","0","Y","o","r","k">>
      [] s = "https://api.open-meteo.com/v1/forecast" ->
            <<"h","t","t","p","s",":","/","/","a","p","i",".","o","p","e","n","-",
              "m","e","t","e","o",".","c","o","m","/","v","1","/","f","o","r","e",
              "c","a","s","t">>
      [] s = "http://api.weatherapi.com/v1/current.json" ->
            <<"h","t","t","p",":","/","/","a","p","i",".","w","e","a","t","h","e",
              "r","a","p","i",".","c","o","m","/","v","1","/","c","u","r","r","e",
              "n","t",".","j","s","o","n">>

\* str.startswith(prefix), on characters
StartsWith(s, prefix) ==
    /\ Len(prefix) <= Len(s)
    /\ SubSeq(s, 1, Len(prefix)) = prefix

\* `needle in haystack` for two strings, on characters
IsSubstring(needle, hay) ==
    \E i \in 0..(Len(hay) - Len(needle)) :
        SubSeq(hay, i + 1, i + Len(needle)) = needle

Digits == {"0","1","2","3","4","5","6","7","8","9"}

DigitVal(c) ==
    CASE c = "0" -> 0 [] c = "1" -> 1 [] c = "2" -> 2 [] c = "3" -> 3
      [] c = "4" -> 4 [] c = "5" -> 5 [] c = "6" -> 6 [] c = "7" -> 7
      [] c = "8" -> 8 [] c = "9" -> 9

RECURSIVE DigitsVal(_)
DigitsVal(s) ==
    IF s = <<>> THEN 0
    ELSE 10 * DigitsVal(SubSeq(s, 1, Len(s) - 1)) + DigitVal(s[Len(s)])

AllDigits(s) == Len(s) > 0 /\ \A i \in 1..Len(s) : s[i] \in Digits

\* The text of a number, sign removed: digits, or digits "." one digit.
\* (Python's float() also reads spaces, exponents, inf and nan, and more
\* fraction digits: none of the strings of the model has them.)
IsIntText(s) == AllDigits(s)
IsDecText(s) ==
    \/ AllDigits(s)
    \/ /\ Len(s) >= 3
       /\ s[Len(s) - 1] = "."
       /\ s[Len(s)] \in Digits
       /\ AllDigits(SubSeq(s, 1, Len(s) - 2))

Unsigned(s) == IF Len(s) > 0 /\ s[1] = "-" THEN SubSeq(s, 2, Len(s)) ELSE s
SignOf(s) == IF Len(s) > 0 /\ s[1] = "-" THEN -1 ELSE 1

\* The value, in tenths, of a number text
DecVal(s) ==
    IF AllDigits(s) THEN 10 * DigitsVal(s)
    ELSE 10 * DigitsVal(SubSeq(s, 1, Len(s) - 2)) + DigitVal(s[Len(s)])

\* x truncated towards zero to a whole number, x in tenths
Trunc(x) == IF x >= 0 THEN (x \div 10) * 10 ELSE -(((-x) \div 10) * 10)

\* A number text above the largest float (no such text of the model has a
\* sign or a fraction)
IsHuge(s) == AllDigits(s) /\ Len(s) > FloatDigits

\* float(x), in tenths: a text above the largest float gives inf, an int
\* above it raises
PyFloat(x) ==
    CASE x.k = "num"  -> x
      [] x.k = "inf"  -> x
      [] x.k = "bigint" -> Exc("OverflowError")
      [] x.k = "bool" -> Num(IF x.v THEN 10 ELSE 0)
      [] x.k = "str"  ->
            IF IsHuge(Chars(x.v)) THEN Inf
            ELSE IF IsDecText(Unsigned(Chars(x.v)))
            THEN Num(SignOf(Chars(x.v)) * DecVal(Unsigned(Chars(x.v))))
            ELSE Exc("ValueError")
      [] OTHER        -> Exc("TypeError")

\* int(x), in tenths: a text of any number of digits gives its int
PyInt(x) ==
    CASE x.k = "num"  -> Num(Trunc(x.v))
      [] x.k = "inf"  -> Exc("OverflowError")
      [] x.k = "bigint" -> x
      [] x.k = "bool" -> Num(IF x.v THEN 10 ELSE 0)
      [] x.k = "str"  ->
            IF IsHuge(Chars(x.v)) THEN BigInt
            ELSE IF IsIntText(Unsigned(Chars(x.v)))
            THEN Num(SignOf(Chars(x.v)) * DecVal(Unsigned(Chars(x.v))))
            ELSE Exc("ValueError")
      [] OTHER        -> Exc("TypeError")

\* d.get(key, default) on a value d: only a dict has .get
PyGet(d, key, default) ==
    IF d.k # "dict" THEN Exc("AttributeError")
    ELSE IF key \in DOMAIN d.v THEN d.v[key] ELSE default

\* `key in d`: Bool, or the TypeError of a value that is no container
PyIn(key, d) ==
    CASE d.k = "dict" -> Bool(key \in DOMAIN d.v)
      [] d.k = "list" -> Bool(\E i \in 1..Len(d.v) : d.v[i] = Str(key))
      [] d.k = "str"  -> Bool(IsSubstring(Chars(key), Chars(d.v)))
      [] OTHER        -> Exc("TypeError")

\* d[key] with a string key
PyItem(d, key) ==
    CASE d.k = "dict" -> IF key \in DOMAIN d.v THEN d.v[key] ELSE Exc("KeyError")
      [] OTHER        -> Exc("TypeError")

\* d[0]
PyFirst(d) ==
    CASE d.k = "list" -> IF Len(d.v) > 0 THEN d.v[1] ELSE Exc("IndexError")
      [] d.k = "str"  -> IF d.v # "" THEN Str(Chars(d.v)[1]) ELSE Exc("IndexError")
      [] d.k = "dict" -> Exc("KeyError")
      [] OTHER        -> Exc("TypeError")

\* The first exception among evaluated expressions, in evaluation order, or None
RECURSIVE FirstExc(_)
FirstExc(s) ==
    IF s = <<>> THEN None
    ELSE IF IsExc(s[1]) THEN s[1]
    ELSE FirstExc(Tail(s))

----------------------------------------------------------------------------
(* Program constants *)

\* WeatherAPIConfig.retry_attempts
retry_attempts == 2
\* WeatherAPIConfig.cache_ttl, in seconds
cache_ttl == 3600
\* WeatherAPIConfig.max_cache_age_days
max_cache_age_days == 7
\* half seconds in a second: request_delay is 0.5 s, the backoff sleep 1 s
Sec == 2
\* WeatherAPIConfig.request_delay, in half seconds
request_delay == 1
\* the backoff of _make_request, time.sleep(1), in seconds
backoff == 1
\* KPH_TO_MPS = 1 / 3.6 = 5 / 18: wind_speed is kept in eighteenths of a
\* tenth, so that the product is exact
KphNum == 5
KphDen == 18

\* self.open_meteo_weather_codes
open_meteo_weather_codes ==
    [c \in {0, 1, 2, 3, 45, 48, 51, 53, 55, 56, 57, 61, 63, 65, 66, 67,
            71, 73, 75, 77, 80, 81, 82, 85, 86, 95, 96, 99} |->
        CASE c = 0 -> "Clear sky" [] c = 1 -> "Mainly clear"
          [] c = 2 -> "Partly cloudy" [] c = 3 -> "Overcast"
          [] c = 45 -> "Fog" [] c = 48 -> "Depositing rime fog"
          [] c = 51 -> "Light drizzle" [] c = 53 -> "Moderate drizzle"
          [] c = 55 -> "Dense drizzle"
          [] c = 56 -> "Light freezing drizzle" [] c = 57 -> "Dense freezing drizzle"
          [] c = 61 -> "Slight rain" [] c = 63 -> "Moderate rain"
          [] c = 65 -> "Heavy rain"
          [] c = 66 -> "Light freezing rain" [] c = 67 -> "Heavy freezing rain"
          [] c = 71 -> "Slight snow fall" [] c = 73 -> "Moderate snow fall"
          [] c = 75 -> "Heavy snow fall" [] c = 77 -> "Snow grains"
          [] c = 80 -> "Slight rain showers" [] c = 81 -> "Moderate rain showers"
          [] c = 82 -> "Violent rain showers"
          [] c = 85 -> "Slight snow showers" [] c = 86 -> "Heavy snow showers"
          [] c = 95 -> "Thunderstorm" [] c = 96 -> "Thunderstorm with slight hail"
          [] c = 99 -> "Thunderstorm with heavy hail"]

----------------------------------------------------------------------------
(* The adapters, from the value _make_request returned *)

\* Mutant: self.open_meteo_weather_codes[weather_code], without a default
WeatherCodeNoDefault(weather_code) ==
    IF /\ weather_code.k = "num"
       /\ weather_code.v % 10 = 0
       /\ (weather_code.v \div 10) \in DOMAIN open_meteo_weather_codes
    THEN Str(open_meteo_weather_codes[weather_code.v \div 10])
    ELSE Exc("KeyError")

\* self.open_meteo_weather_codes.get(weather_code, "Unknown"): a number is
\* looked up by value (True is 1), a list or a dict cannot be hashed
WeatherCodeDescription(weather_code) ==
    LET n == IF weather_code.k = "bool"
             THEN (IF weather_code.v THEN 10 ELSE 0)
             ELSE weather_code.v
    IN  CASE weather_code.k \in {"list", "dict"} -> Exc("TypeError")
          [] weather_code.k \in {"num", "bool"} ->
                IF n % 10 = 0 /\ (n \div 10) \in DOMAIN open_meteo_weather_codes
                THEN Str(open_meteo_weather_codes[n \div 10])
                ELSE Str("Unknown")
          [] OTHER -> Str("Unknown")

\* x * KPH_TO_MPS and a plain metres-per-second value, in eighteenths of a tenth
TimesKphToMps(x) == IF IsExc(x) \/ x = Inf THEN x ELSE Num(x.v * KphNum)
Mps(x) == IF IsExc(x) \/ x = Inf THEN x ELSE Num(x.v * KphDen)

\* _validate_weather_data
RequiredFields == {"temperature", "description", "source", "city"}
_validate_weather_data(data) ==
    /\ \A field \in RequiredFields : ~IsNone(data[field])
    /\ ~IsExc(PyFloat(data.temperature))

\* Mutant: every adapter writes the source of the first one
BuildReadingCopiedSource(fields, description, source, c) ==
    IF FirstExc(fields \o <<description>>) # None
    THEN FirstExc(fields \o <<description>>)
    ELSE [k |-> "reading",
          temperature |-> fields[1], feels_like |-> fields[2],
          humidity |-> fields[3], pressure |-> fields[4],
          wind_speed |-> fields[5], wind_direction |-> fields[6],
          description |-> description, source |-> Str("Open-Meteo"), city |-> c]

\* The weather_data literal of an adapter and what follows it: the fields are
\* evaluated in order, the first exception leaves the literal
BuildReading(fields, description, source, c) ==
    IF FirstExc(fields \o <<description>>) # None
    THEN FirstExc(fields \o <<description>>)
    ELSE LET weather_data ==
                [k |-> "reading",
                 temperature |-> fields[1], feels_like |-> fields[2],
                 humidity |-> fields[3], pressure |-> fields[4],
                 wind_speed |-> fields[5], wind_direction |-> fields[6],
                 description |-> description, source |-> Str(source), city |-> c]
         IN  IF _validate_weather_data(weather_data) THEN weather_data ELSE None

\* Mutant: the key is not looked for
LacksNoKeyCheck(data, key) == Bool(~Truthy(data))

\* `not data or key not in data`: TRUE, FALSE, or the exception of `in`
Lacks(data, key) ==
    IF ~Truthy(data) THEN Bool(TRUE)
    ELSE IF IsExc(PyIn(key, data)) THEN PyIn(key, data)
    ELSE Bool(~PyIn(key, data).v)

\* Mutant: `if not temperature`
TemperatureFalsy(temperature) == ~Truthy(temperature)

\* `temperature is None` after current.get(<temperature key>)
TemperatureMissing(temperature) == IsNone(temperature)

\* d.get(key, default) where d was already used as a dict
Field(current, key, default) == PyGet(current, key, default)

\* get_open_meteo from `if not data ...` to the end of the try block
OpenMeteoBody(data, c) ==
    IF IsExc(Lacks(data, "current")) THEN Lacks(data, "current")
    ELSE IF Lacks(data, "current").v THEN None
    ELSE LET current == PyItem(data, "current")
             temperature == PyGet(current, "temperature_2m", None)
             weather_code == PyGet(current, "weather_code", None)
             description == WeatherCodeDescription(weather_code)
         IN  IF IsExc(current) THEN current
             ELSE IF IsExc(temperature) THEN temperature
             ELSE IF TemperatureMissing(temperature) THEN None
             ELSE IF IsExc(description) THEN description
             ELSE BuildReading(
                    <<PyFloat(temperature),
                      PyFloat(Field(current, "apparent_temperature", temperature)),
                      PyFloat(Field(current, "relative_humidity_2m", Num(0))),
                      PyFloat(Field(current, "pressure_msl", Num(0))),
                      Mps(PyFloat(Field(current, "wind_speed_10m", Num(0)))),
                      PyFloat(Field(current, "wind_direction_10m", Num(0)))>>,
                    description, "Open-Meteo", c)

\* current.get('condition', {}).get('text', 'Unknown')
ConditionText(current) ==
    PyGet(Field(current, "condition", EmptyDict), "text", Str("Unknown"))

\* get_weather_api from `if not data ...` to the end of the try block
WeatherApiBody(data, c) ==
    IF IsExc(Lacks(data, "current")) THEN Lacks(data, "current")
    ELSE IF Lacks(data, "current").v THEN None
    ELSE LET current == PyItem(data, "current")
             temperature == PyGet(current, "temp_c", None)
         IN  IF IsExc(current) THEN current
             ELSE IF IsExc(temperature) THEN temperature
             ELSE IF TemperatureMissing(temperature) THEN None
             ELSE BuildReading(
                    <<PyFloat(temperature),
                      PyFloat(Field(current, "feelslike_c", temperature)),
                      PyFloat(Field(current, "humidity", Num(0))),
                      PyFloat(Field(current, "pressure_mb", Num(0))),
                      TimesKphToMps(PyFloat(Field(current, "wind_kph", Num(0)))),
                      PyFloat(Field(current, "wind_degree", Num(0)))>>,
                    ConditionText(current), "WeatherAPI", c)

\* current.get('weatherDesc', [{}])[0].get('value', 'Unknown')
WeatherDescValue(current) ==
    LET first == PyFirst(Field(current, "weatherDesc", List(<<EmptyDict>>)))
    IN  IF IsExc(first) THEN first ELSE PyGet(first, "value", Str("Unknown"))

\* get_wttr_in from `if not data ...` to the end of the try block
WttrInBody(data, c) ==
    IF IsExc(Lacks(data, "current_condition")) THEN Lacks(data, "current_condition")
    ELSE IF Lacks(data, "current_condition").v THEN None
    ELSE LET cc == PyItem(data, "current_condition")
         IN  IF IsExc(cc) THEN cc
             ELSE IF ~Truthy(cc) THEN None
             ELSE LET current == PyFirst(cc)
                      temp_c == PyGet(current, "temp_C", None)
                  IN  IF IsExc(current) THEN current
                      ELSE IF IsExc(temp_c) THEN temp_c
                      ELSE IF TemperatureMissing(temp_c) THEN None
                      ELSE BuildReading(
                             <<PyFloat(temp_c),
                               PyFloat(Field(current, "FeelsLikeC", temp_c)),
                               PyInt(Field(current, "humidity", Num(0))),
                               PyInt(Field(current, "pressure", Num(0))),
                               TimesKphToMps(PyFloat(Field(current, "windspeedKmph", Num(0)))),
                               PyInt(Field(current, "winddirDegree", Num(0)))>>,
                             WeatherDescValue(current), "wttr.in", c)

\* Mutant: `except ValueError`
AdapterCatchesValueError(e) == e \in {"ValueError", "UnicodeDecodeError"}

\* The exceptions `except (ValueError, TypeError)` catches
\* (UnicodeDecodeError is a ValueError)
AdapterCatches(e) == e \in {"ValueError", "TypeError", "UnicodeDecodeError"}

\* An adapter from the return of _make_request on: the body inside its
\* try / except.  The result is a reading, None, or the exception that escapes.
AdapterResult(name, data, c) ==
    LET body == CASE name = "Open-Meteo" -> OpenMeteoBody(data, c)
                  [] name = "wttr.in"    -> WttrInBody(data, c)
                  [] name = "WeatherAPI" -> WeatherApiBody(data, c)
    IN  IF IsExc(data) THEN (IF AdapterCatches(data.v) THEN None ELSE data)
        ELSE IF IsExc(body) /\ AdapterCatches(body.v) THEN None
        ELSE body

----------------------------------------------------------------------------
(* URLs, cache keys and the cache files *)

\* Mutant: the scheme is not looked at
_validate_url_nonempty(url) == Truthy(url)

\* _validate_url: bool(url and url.startswith(('http://', 'https://')))
_validate_url(url) ==
    /\ Truthy(url)
    /\ \/ StartsWith(Chars(url.v), Chars("http://"))
       \/ StartsWith(Chars(url.v), Chars("https://"))

\* The characters urllib.parse.quote never encodes
Unreserved ==
    {"a","b","c","d","e","f","g","h","i","j","k","l","m","n","o","p","q","r",
     "s","t","u","v","w","x","y","z",
     "A","B","C","D","E","F","G","H","I","J","K","L","M","N","O","P","Q","R",
     "S","T","U","V","W","X","Y","Z",
     "0","1","2","3","4","5","6","7","8","9","_",".","-","~"}

\* %XX of the other characters of the model's strings
PctCode(c) ==
    CASE c = " " -> "%20" [] c = "/" -> "%2F" [] c = ":" -> "%3A"
      [] c = "%" -> "%25"

RECURSIVE QuoteChars(_, _)
QuoteChars(s, safe) ==
    IF s = <<>> THEN ""
    ELSE (IF s[1] \in Unreserved \cup safe THEN s[1] ELSE PctCode(s[1]))
            \o QuoteChars(Tail(s), safe)

\* urllib.parse.quote(string, safe)
quote(string, safe) == QuoteChars(Chars(string), safe)

\* hash(frozenset(sorted(params.items()))): a value that depends on the set
\* of items and, through the hashes of its strings, on the salt of the
\* process.  Collisions of unequal sets are not modelled.
ParamHash(params, seed) ==
    [items |-> {<<key, params.v[key]>> : key \in DOMAIN params.v}, seed |-> seed]

\* params.items() of a dict whose keys were inserted in the order `order`
ItemsInOrder(params, order) ==
    [i \in 1..Len(order) |-> <<order[i], params.v[order[i]]>>]

\* hash(frozenset(sorted(items))) of a list of items: sorting and the
\* frozenset leave the set of the items, hashed under the salt
HashOfItems(items, seed) ==
    [items |-> {items[i] : i \in 1..Len(items)}, seed |-> seed]

\* _get_cache_key: the name of the cache file, as its two variable parts
_get_cache_key(url, params) ==
    IF ~Truthy(params)
    THEN [url |-> quote(url.v, {}), hash |-> None]
    ELSE [url |-> quote(url.v, {}), hash |-> ParamHash(params, hashseed)]

\* The content of a file: the text json.dumps wrote for a value, text that is
\* no JSON, bytes that are no text in the locale's encoding, or a file that
\* cannot be read
JsonText(data) == [kind |-> "json", data |-> data]
BrokenText == [kind |-> "text"]
BrokenBytes == [kind |-> "bytes"]
Unreadable == [kind |-> "unreadable"]

\* cache_file.read_text() followed by json.loads: the value, or the exception
ReadJson(content) ==
    CASE content.kind = "json"       -> content.data
      [] content.kind = "text"       -> Exc("JSONDecodeError")
      [] content.kind = "bytes"      -> Exc("UnicodeDecodeError")
      [] content.kind = "unreadable" -> Exc("IOError")

\* The exceptions `except (IOError, json.JSONDecodeError)` catches
LoadCatches(e) == e \in {"IOError", "JSONDecodeError"}

\* `file_age < self.config.cache_ttl`, both in half seconds
IsFresh(file_age) == file_age < cache_ttl * Sec

\* _load_cached_response at time t: the cached value, None, or the exception
\* that escapes
_load_cached_response(cache_file, t) ==
    IF ~enable_cache THEN None
    ELSE IF cache_file \notin DOMAIN disk THEN None
    ELSE LET file_age == t - disk[cache_file].mtime
             cached_data == ReadJson(disk[cache_file].content)
         IN  IF ~IsFresh(file_age) THEN None
             ELSE IF ~IsExc(cached_data) THEN cached_data
             ELSE IF LoadCatches(cached_data.v) THEN None
             ELSE cached_data

\* Mutant: the file is named after the url alone
_cache_response_url_only(cache_file, data, written) ==
    IF ~enable_cache \/ ~written THEN disk
    ELSE [f \in DOMAIN disk \cup {[url |-> cache_file.url, hash |-> None]} |->
            IF f = [url |-> cache_file.url, hash |-> None]
            THEN [content |-> JsonText(data), mtime |-> now]
            ELSE disk[f]]

\* _cache_response: the files after it; `written` is whether write_text
\* succeeded (an IOError is swallowed and leaves the files as they were)
_cache_response(cache_file, data, written) ==
    IF ~enable_cache \/ ~written THEN disk
    ELSE [f \in DOMAIN disk \cup {cache_file} |->
            IF f = cache_file
            THEN [content |-> JsonText(data), mtime |-> now]
            ELSE disk[f]]

----------------------------------------------------------------------------
(* The requests of the three adapters *)

\* Mutant: the first two adapters change places
api_functions_swapped == <<"wttr.in", "Open-Meteo", "WeatherAPI">>

\* api_functions of get_all_weather_data, in order
api_functions == <<"Open-Meteo", "wttr.in", "WeatherAPI">>
ProviderNames == {api_functions[i] : i \in 1..Len(api_functions)}

\* self.latitude and self.longitude (in 1/10000 degree), self.weather_api_key
latitude == Num(546872)
longitude == Num(252797)
weather_api_key == Str("demo")

OpenMeteoParams ==
    Dict([key \in {"latitude", "longitude", "current", "timezone"} |->
            CASE key = "latitude"  -> latitude
              [] key = "longitude" -> longitude
              [] key = "current"   ->
                    Str("temperature_2m,relative_humidity_2m,apparent_temperature,weather_code,pressure_msl,wind_speed_10m,wind_direction_10m")
              [] key = "timezone"  -> Str("Europe/Vilnius")])

WeatherApiParams(c) ==
    Dict([key \in {"key", "q", "aqi"} |->
            CASE key = "key" -> weather_api_key
              [] key = "q"   -> c
              [] key = "aqi" -> Str("no")])

WttrInParams == Dict([key \in {"format"} |-> Str("j1")])

\* The url and params an adapter passes to _make_request
RequestOf(name, c) ==
    CASE name = "Open-Meteo" ->
            [url |-> Str("https://api.open-meteo.com/v1/forecast"),
             params |-> OpenMeteoParams]
      [] name = "wttr.in" ->
            [url |-> Str("https://wttr.in/" \o quote(c.v, {"/"})),
             params |-> WttrInParams]
      [] name = "WeatherAPI" ->
            [url |-> Str("http://api.weatherapi.com/v1/current.json"),
             params |-> WeatherApiParams(c)]

----------------------------------------------------------------------------
(* The values the remote services and the cache files can hold *)

Absent == [k |-> "absent"]

\* A dict of the keys of f whose value is not Absent
MkDict(f) == Dict([key \in {x \in DOMAIN f : f[x] # Absent} |-> f[key]])

\* The names of a provider's fields, in the order temperature, feels-like,
\* humidity, pressure, wind speed, wind direction, description
FieldKeys(name) ==
    CASE name = "Open-Meteo" ->
            <<"temperature_2m", "apparent_temperature", "relative_humidity_2m",
              "pressure_msl", "wind_speed_10m", "wind_direction_10m", "weather_code">>
      [] name = "wttr.in" ->
            <<"temp_C", "FeelsLikeC", "humidity", "pressure", "windspeedKmph",
              "winddirDegree", "weatherDesc">>
      [] name = "WeatherAPI" ->
            <<"temp_c", "feelslike_c", "humidity", "pressure_mb", "wind_kph",
              "wind_degree", "condition">>

TopKey(name) == IF name = "wttr.in" THEN "current_condition" ELSE "current"

\* The object that holds the fields: vals[i] is the value of FieldKeys[i]
Current(name, vals) ==
    MkDict([key \in {FieldKeys(name)[i] : i \in 1..7} |->
              vals[CHOOSE i \in 1..7 : FieldKeys(name)[i] = key]])

\* A payload whose top-level key holds `inner`
Wrap(name, inner) == MkDict([key \in {TopKey(name)} |-> inner])

\* A payload of the documented shape
Payload(name, vals) ==
    Wrap(name, IF name = "wttr.in" THEN List(<<Current(name, vals)>>)
               ELSE Current(name, vals))

\* The description field of a provider that holds `text`
DescOf(name, text) ==
    CASE name = "Open-Meteo" -> text
      [] name = "wttr.in"    -> List(<<MkDict([key \in {"value"} |-> text])>>)
      [] name = "WeatherAPI" -> MkDict([key \in {"text"} |-> text])

TempVals == {Absent, None, Num(0), Str("12"), Str("x")}
OptVals == {Absent, None, Num(70), Str("x")}
HumidityVals == OptVals \cup {Str("5.5"), Str(HugeText)}

\* What a provider can send as its description field
DescVals(name) ==
    CASE name = "Open-Meteo" ->
            {Absent, None, Num(30), Num(2000), Str("x"), List(<<>>)}
            \cup {Num(10 * code) : code \in DOMAIN open_meteo_weather_codes}
            \cup {Num(40), Num(1000), Num(-10)}
      [] name = "wttr.in" ->
            {Absent, None, List(<<>>), EmptyDict, Str(""),
             DescOf(name, Absent), DescOf(name, None),
             DescOf(name, Str("")), DescOf(name, Str("Sunny"))}
      [] name = "WeatherAPI" ->
            {Absent, None, Str("x"), DescOf(name, Absent), DescOf(name, None),
             DescOf(name, Str("")), DescOf(name, Str("Sunny"))}

\* Values that do not have the documented shape
OddValues(name) ==
    {None, EmptyDict, List(<<>>), List(<<Str(TopKey(name))>>), Num(70), Str("x"),
     Str(TopKey(name)), Bool(TRUE), MkDict([key \in {"error"} |-> Str("x")])}
    \cup {Wrap(name, inner) :
            inner \in {None, EmptyDict, List(<<>>), List(<<None>>), List(<<Str("x")>>),
                       Str(""), Str("x"), Num(0), Num(70), Bool(TRUE),
                       MkDict([key \in {"x"} |-> Num(70)])}}

\* Every value an adapter is tried on: the odd ones, every combination of
\* the numeric fields without a description, and every description with
\* every temperature and humidity
DescInputs(name) ==
    {Payload(name, <<t, Absent, h, Absent, Absent, Absent, x>>) :
        t \in TempVals, h \in HumidityVals, x \in DescVals(name)}
AdapterInputs(name) ==
    OddValues(name)
    \cup {Payload(name, <<t, f, h, p, w, d, Absent>>) :
            t \in TempVals, f \in OptVals, h \in HumidityVals,
            p \in OptVals, w \in OptVals, d \in OptVals}
    \cup DescInputs(name)

\* The bodies a remote service answers with in a pass: a full reading, a
\* reading of the temperature alone, no temperature, an empty object, and
\* null under the top-level key
FullVals(name) ==
    IF name = "wttr.in"
    THEN <<Str("12"), Str("-3"), Str("7"), Str("12"), Str("7"), Str("12"),
           DescOf(name, Str("Sunny"))>>
    ELSE <<Num(55), Num(0), Num(70), Num(70), Num(70), Num(70),
           IF name = "Open-Meteo" THEN Num(30) ELSE DescOf(name, Str("Sunny"))>>
BareVals == <<Num(55), Absent, Absent, Absent, Absent, Absent, Absent>>
NoTempVals == <<Absent, Num(70), Absent, Absent, Absent, Absent, Absent>>

NetPayloads(name) ==
    {Payload(name, FullVals(name)), Payload(name, BareVals),
     Payload(name, NoTempVals), EmptyDict, Wrap(name, List(<<None>>))}

\* The bodies a direct _make_request call is answered with
DirectPayloads == {None, EmptyDict, List(<<>>), MkDict([key \in {"x"} |-> Num(70)])}

----------------------------------------------------------------------------
(* Bounds *)

\* The direct _make_request calls of one behaviour
MaxCalls == 2

----------------------------------------------------------------------------
(* _make_request *)

NoFrame == [caller |-> "none"]
Pending == [k |-> "pending"]
NotRun == [k |-> "notrun"]

\* WeatherAPIConfig.timeout: how long a GET that times out has waited, in seconds
timeout == 15

\* What one session.get ... response.json() can end in
Failures == {"timeout", "connection_error", "http_error", "decode_error"}

\* Mutant: the last round is taken to be one later
IsLastAttemptOffByOne(attempt) == attempt = retry_attempts

\* `attempt == self.config.retry_attempts - 1`
IsLastAttempt(attempt) == attempt = retry_attempts - 1

\* `for attempt in range(self.config.retry_attempts)`: is there a next round
InRange(attempt) == attempt < retry_attempts

\* `if cached_data:` of _make_request
IsCacheHit(cached_data) == Truthy(cached_data)

\* return (or raise) `value` from _make_request to its caller
Return(value, caller) ==
    /\ retval' = value
    /\ pc' = IF caller = "direct" THEN "idle" ELSE "fetched"

\* _make_request up to the retry loop, called at time t
BeginRequest(url, params, caller, t) ==
    LET valid == _validate_url(url)
        cache_file == IF valid /\ enable_cache
                      THEN _get_cache_key(url, params) ELSE None
        cached_data == IF valid /\ enable_cache
                       THEN _load_cached_response(cache_file, t) ELSE None
    IN  /\ frame' = [url |-> url, params |-> params, attempt |-> 0,
                     cache_file |-> cache_file, caller |-> caller]
        /\ log' = IF valid /\ enable_cache THEN <<"cache_read">> ELSE <<>>
        /\ IF ~valid THEN Return(None, caller)
           ELSE IF IsExc(cached_data) \/ IsCacheHit(cached_data)
                THEN Return(cached_data, caller)
           ELSE IF ~InRange(0) THEN Return(None, caller)
           ELSE pc' = "attempt" /\ retval' = Pending

\* The events of the pass, while a pass runs
Traced(e) == IF frame.caller = "direct" THEN trace ELSE Append(trace, e)

\* One round of the retry loop that gets a body: cache it, return it
AttemptOk(data, written) ==
    /\ pc = "attempt"
    /\ disk' = IF enable_cache /\ frame.cache_file # None
               THEN _cache_response(frame.cache_file, data, written)
               ELSE disk
    /\ log' = log \o (IF enable_cache /\ frame.cache_file # None
                      THEN <<"get:ok", "cache_write">> ELSE <<"get:ok">>)
    /\ trace' = Traced(<<"get", frame.caller>>)
    /\ Return(data, frame.caller)
    /\ UNCHANGED <<enable_cache, city, hashseed, now, frame, idx, results,
                   outcome, calls>>

\* Mutant: every RequestException is tried again
IsTransientAnyRequestError(failure) ==
    failure \in {"timeout", "connection_error", "http_error"}

\* `except requests.exceptions.Timeout`: the failure that is tried again
IsTransient(failure) == failure = "timeout"

\* One round of the retry loop that raises: a timeout sleeps and goes round
\* again unless it was the last round, anything else returns None
AttemptFail(failure) ==
    /\ pc = "attempt"
    /\ now' = IF failure = "timeout" THEN now + timeout * Sec ELSE now
    /\ log' = Append(log, "get:" \o failure)
    /\ trace' = Traced(<<"get", frame.caller>>)
    /\ IF IsTransient(failure) /\ ~IsLastAttempt(frame.attempt)
       THEN pc' = "backoff" /\ retval' = retval
       ELSE Return(None, frame.caller)
    /\ UNCHANGED <<enable_cache, city, hashseed, disk, frame, idx, results,
                   outcome, calls>>

\* The bodies the remote service of the running request can answer with
BodiesOf ==
    [caller \in ProviderNames \cup {"direct"} |->
        IF caller = "direct" THEN DirectPayloads ELSE NetPayloads(caller)]

\* session.get, raise_for_status, response.json and what follows each outcome
Attempt ==
    \/ /\ pc = "attempt"
       /\ \E data \in BodiesOf[frame.caller],
             written \in (IF enable_cache THEN BOOLEAN ELSE {TRUE}) :
                AttemptOk(data, written)
    \/ \E failure \in Failures : AttemptFail(failure)

\* time.sleep(1) after a timeout, then the next round of the loop
Backoff ==
    /\ pc = "backoff"
    /\ now' = now + backoff * Sec
    /\ log' = Append(log, "sleep")
    /\ trace' = Traced(<<"sleep", frame.caller>>)
    /\ frame' = [frame EXCEPT !.attempt = frame.attempt + 1]
    /\ IF InRange(frame.attempt + 1)
       THEN pc' = "attempt" /\ retval' = retval
       ELSE Return(None, frame.caller)
    /\ UNCHANGED <<enable_cache, city, hashseed, disk, idx, results, outcome, calls>>

\* The urls and params of the direct calls
DirectRequests ==
    {[url |-> u, params |-> None] :
        u \in {None, Str(""), Str("ftp://x"), Str("http:/x"), Str("HTTP://x"),
               Str("xhttp://x"), Str("http://x")}}
    \cup {[url |-> Str("https://api.open-meteo.com/v1/forecast"),
           params |-> OpenMeteoParams]}

\* The time a caller lets pass before a call, in half seconds
Waits == {cache_ttl * Sec - 1, cache_ttl * Sec}

\* A caller calls _make_request(url, params) after `wait`
CallMakeRequest(url, params, wait) ==
    /\ pc = "idle"
    /\ calls < MaxCalls
    /\ calls' = calls + 1
    /\ now' = now + wait
    /\ BeginRequest(url, params, "direct", now + wait)
    /\ UNCHANGED <<enable_cache, city, hashseed, disk, idx, results, outcome, trace>>

----------------------------------------------------------------------------
(* The adapters and get_all_weather_data *)

\* results[name] = result, on a mapping kept as a sequence of <<key, value>>
DictSet(m, key, value) ==
    IF \E i \in 1..Len(m) : m[i][1] = key
    THEN [i \in 1..Len(m) |-> IF m[i][1] = key THEN <<key, value>> ELSE m[i]]
    ELSE Append(m, <<key, value>>)

\* Mutant: the loop has no try / except
AggregatorCatchesNothing(e) == FALSE

\* Mutant: the loop catches only what the adapters catch
AggregatorCatchesNarrow(e) == AdapterCatches(e)

\* `except Exception` of get_all_weather_data: every exception of the model
\* is an Exception
AggregatorCatches(e) == TRUE

\* `if result: results[name] = result`: the mapping after the adapter
\* returned or raised r
Collect(m, name, r) ==
    IF IsExc(r) THEN m
    ELSE IF Truthy(r) THEN DictSet(m, name, r)
    ELSE m

\* main() calls get_all_weather_data: the loop starts
get_all_weather_data ==
    /\ pc = "idle"
    /\ calls = 0
    /\ calls' = calls + 1
    /\ results' = <<>>
    /\ idx' = 1
    /\ outcome' = [name \in ProviderNames |-> NotRun]
    /\ trace' = <<>>
    /\ pc' = "invoke"
    /\ UNCHANGED <<enable_cache, city, hashseed, disk, now, frame, retval, log>>

\* The loop calls api_functions[idx]: the adapter builds its request and
\* calls _make_request
Invoke ==
    /\ pc = "invoke"
    /\ LET name == api_functions[idx]
           request == RequestOf(name, city)
       IN  /\ trace' = Append(trace, <<"invoke", name>>)
           /\ BeginRequest(request.url, request.params, name, now)
    /\ UNCHANGED <<enable_cache, city, hashseed, disk, now, idx, results,
                   outcome, calls>>

\* _make_request has returned to the adapter: the adapter extracts and
\* returns (or raises), and the loop keeps what it got; an exception the
\* loop does not catch ends get_all_weather_data ("raised")
AdapterFinish ==
    /\ pc = "fetched"
    /\ LET name == frame.caller
           r == AdapterResult(name, retval, city)
       IN  /\ outcome' = [outcome EXCEPT ![name] = r]
           /\ results' = Collect(results, name, r)
           /\ pc' = IF IsExc(r) /\ ~AggregatorCatches(r.v) THEN "raised" ELSE "delay"
    /\ UNCHANGED <<enable_cache, city, hashseed, disk, now, frame, retval,
                   idx, log, trace, calls>>

\* time.sleep(self.config.request_delay), then the next adapter or the return
Delay ==
    /\ pc = "delay"
    /\ now' = now + request_delay
    /\ trace' = Append(trace, <<"delay", api_functions[idx]>>)
    /\ IF idx < Len(api_functions)
       THEN idx' = idx + 1 /\ pc' = "invoke"
       ELSE idx' = idx /\ pc' = "done"
    /\ UNCHANGED <<enable_cache, city, hashseed, disk, frame, retval, results,
                   outcome, log, calls>>

----------------------------------------------------------------------------
(* The initial states *)

\* seconds in a day (_clean_old_cache)
SecondsPerDay == 86400

\* _clean_old_cache at time t: the files older than max_cache_age_days are
\* removed, unless unlink fails (`unlinked` is whether it succeeds)
_clean_old_cache(files, t, unlinked) ==
    LET cutoff_time == t - max_cache_age_days * SecondsPerDay * Sec
        kept == {f \in DOMAIN files : ~(files[f].mtime < cutoff_time /\ unlinked)}
    IN  [f \in kept |-> files[f]]

Cities == {Str("Vilnius"), Str("")}

\* The salt of the process (PYTHONHASHSEED, random unless set), and the
\* salt of the earlier run that left the cache files
Seeds == {0, 1}
EarlierSeeds == {0}

\* A cache file left by an earlier run: fresh, one half second from stale,
\* stale, older than the retention window, and fresh but damaged
OldFiles(name) ==
    {[content |-> JsonText(Payload(name, FullVals(name))), mtime |-> m] :
        m \in {0, 1 - cache_ttl * Sec, 0 - cache_ttl * Sec,
               0 - max_cache_age_days * SecondsPerDay * Sec - 1}}
    \cup {[content |-> c, mtime |-> 0] : c \in {BrokenText, BrokenBytes, Unreadable}}

\* The working directory before the constructor runs: no cache file, or
\* one cache file of one provider's request
OldDisks(c, seed) ==
    {<<>>} \cup
    UNION {{[f \in {[url |-> quote(RequestOf(name, c).url.v, {}),
                     hash |-> ParamHash(RequestOf(name, c).params, seed)]} |-> file] :
                file \in OldFiles(name)} : name \in ProviderNames}

\* The cache file an earlier run's direct call of the Open-Meteo request left
EarlierDirectFile(seed) ==
    [f \in {[url |-> quote(RequestOf("Open-Meteo", Str("Vilnius")).url.v, {}),
             hash |-> ParamHash(OpenMeteoParams, seed)]} |->
        [content |-> JsonText(MkDict([key \in {"x"} |-> Num(70)])), mtime |-> 0]]

\* A caller that calls _make_request itself, MaxCalls times; the working
\* directory holds no cache file, or a fresh damaged one
DirectDisks(c, seed) ==
    {<<>>, EarlierDirectFile(seed)} \cup
    {[f \in {[url |-> quote("http://x", {}), hash |-> None]} |-> file] :
        file \in {[content |-> damaged, mtime |-> 0] :
                    damaged \in {BrokenText, BrokenBytes, Unreadable}}}

\* The state after FreeWeatherAPI.__init__, the working directory holding
\* the files of a direct caller or those of an earlier run of main
InitObject(direct) ==
    /\ enable_cache \in BOOLEAN
    /\ city \in Cities
    /\ hashseed \in Seeds
    /\ \E earlier \in EarlierSeeds, unlinked \in BOOLEAN :
       \E old \in (IF direct THEN DirectDisks(city, earlier)
                               ELSE OldDisks(city, earlier)) :
            disk = IF enable_cache THEN _clean_old_cache(old, 0, unlinked) ELSE old
    /\ now = 0

\* No call is running and none was made
InitCaller ==
    /\ pc = "idle"
    /\ frame = NoFrame
    /\ retval = Pending
    /\ idx = 0
    /\ results = <<>>
    /\ outcome = [name \in ProviderNames |-> NotRun]
    /\ log = <<>>
    /\ trace = <<>>
    /\ calls = 0

\* main(): the object is built and get_all_weather_data is called once
Init == InitObject(FALSE) /\ InitCaller

Next ==
    \/ get_all_weather_data
    \/ Invoke
    \/ Attempt
    \/ Backoff
    \/ AdapterFinish
    \/ Delay

Spec == Init /\ [][Next]_vars

InitRequest == InitObject(TRUE) /\ city = Str("Vilnius") /\ InitCaller

NextRequest ==
    \/ \E request \in DirectRequests, wait \in Waits :
            CallMakeRequest(request.url, request.params, wait)
    \/ Attempt
    \/ Backoff

SpecRequest == InitRequest /\ [][NextRequest]_vars

\* An adapter from the return of _make_request on: _make_request has
\* returned any of AdapterInputs, or has raised out of the cache read
InitAdapter ==
    /\ enable_cache = FALSE
    /\ city \in Cities
    /\ hashseed \in Seeds
    /\ disk = <<>>
    /\ now = 0
    /\ pc = "fetched"
    /\ \E i \in 1..Len(api_functions) :
        /\ idx = i
        /\ frame = [url |-> RequestOf(api_functions[i], city).url,
                    params |-> RequestOf(api_functions[i], city).params,
                    attempt |-> 0, cache_file |-> None,
                    caller |-> api_functions[i]]
        /\ retval \in (IF city = Str("Vilnius")
                       THEN AdapterInputs(api_functions[i])
                       ELSE DescInputs(api_functions[i]))
                      \cup {Exc("UnicodeDecodeError")}
    /\ results = <<>>
    /\ outcome = [name \in ProviderNames |-> NotRun]
    /\ log = <<>>
    /\ trace = <<>>
    /\ calls = 1

NextAdapter == AdapterFinish

SpecAdapter == InitAdapter /\ [][NextAdapter]_vars

----------------------------------------------------------------------------
(* format_weather_report *)

\* num / den rounded to the nearest whole number, a tie to the even one: how
\* the format specs round a value that a float holds exactly (den > 0)
RoundHalfEven(num, den) ==
    LET q == num \div den
        r == num - q * den
    IN  IF 2 * r < den THEN q
        ELSE IF 2 * r > den THEN q + 1
        ELSE IF q % 2 = 0 THEN q ELSE q + 1

\* f"{x:.1f}" (places = 1) and f"{x:.0f}" (places = 0) of a number kept in
\* units of 1/den: the printed number, in tenths; an int above the largest
\* float cannot be converted and raises
FormatFixed(x, den, places) ==
    CASE x.k = "bigint" -> Exc("OverflowError")
      [] x.k = "inf"    -> Str("inf")
      [] x.k = "num"    ->
            IF places = 1 THEN Num(RoundHalfEven(x.v * 10, den))
            ELSE Num(10 * RoundHalfEven(x.v, den))

\* The lines of one source, or the first exception of their format specs
ReportBlock(source, data) ==
    LET temperature == FormatFixed(data.temperature, 10, 1)
        feels_like == FormatFixed(data.feels_like, 10, 1)
        humidity == FormatFixed(data.humidity, 10, 0)
        pressure == FormatFixed(data.pressure, 10, 0)
        wind_speed == FormatFixed(data.wind_speed, 10 * KphDen, 1)
        failed == FirstExc(<<temperature, feels_like, humidity, pressure, wind_speed>>)
    IN  IF failed # None THEN failed
        ELSE [k |-> "block", source |-> source, temperature |-> temperature,
              feels_like |-> feels_like, conditions |-> data.description,
              humidity |-> humidity, pressure |-> pressure, wind_speed |-> wind_speed]

RECURSIVE SumOf(_)
SumOf(temps) == IF temps = <<>> THEN 0 ELSE temps[1].v + SumOf(Tail(temps))

\* Mutant: the sum is divided by the number of providers
AverageOfThree(temps) ==
    IF \E i \in 1..Len(temps) : temps[i] = Inf THEN Str("inf")
    ELSE Num(RoundHalfEven(SumOf(temps), 3))

\* f"{sum(temps) / len(temps):.1f}": the printed average, in tenths
AverageText(temps) ==
    IF \E i \in 1..Len(temps) : temps[i] = Inf THEN Str("inf")
    ELSE Num(RoundHalfEven(SumOf(temps), Len(temps)))

\* The message for an empty mapping
NoDataText == "No weather data could be retrieved from any source.\n"

\* format_weather_report(results): the message, the report, or the exception
format_weather_report(aggregate) ==
    IF Len(aggregate) = 0 THEN Str(NoDataText)
    ELSE LET blocks == [i \in 1..Len(aggregate) |->
                            ReportBlock(aggregate[i][1], aggregate[i][2])]
             temps == [i \in 1..Len(aggregate) |-> aggregate[i][2].temperature]
         IN  IF FirstExc(blocks) # None THEN FirstExc(blocks)
             ELSE [k |-> "report", city |-> aggregate[1][2].city, blocks |-> blocks,
                   average |-> AverageText(temps), count |-> Len(aggregate)]

\* main(): format_weather_report(results) after the pass
Report ==
    /\ pc = "done"
    /\ retval' = format_weather_report(results)
    /\ pc' = "reported"
    /\ UNCHANGED <<enable_cache, city, hashseed, disk, now, frame, idx, results,
                   outcome, log, trace, calls>>

\* The bodies of the passes that are formatted: those of NetPayloads,
\* bodies with a fractional and with a huge humidity, temperature or wind,
\* and temperatures of 10, 20 and 30 from the three providers
FormatPayloads(name) ==
    {Payload(name, FullVals(name)), Payload(name, BareVals), EmptyDict}
    \cup {Payload(name, <<Str("12"), Absent, h, Absent, Absent, Absent, Absent>>) :
            h \in {Num(55), Str(HugeText)}}
    \cup {Payload(name, <<Str(HugeText), Absent, Absent, Absent, w, Absent, Absent>>) :
            w \in {Absent, Num(70)}}
    \cup {Payload(name, <<CASE name = "Open-Meteo" -> Num(100)
                            [] name = "wttr.in"    -> Str("20")
                            [] name = "WeatherAPI" -> Num(300),
                          Absent, Absent, Absent, Absent, Absent, Absent>>)}

\* The events of a pass in which every adapter issued one GET
OneGetEach ==
    <<<<"invoke", "Open-Meteo">>, <<"get", "Open-Meteo">>, <<"delay", "Open-Meteo">>,
      <<"invoke", "wttr.in">>, <<"get", "wttr.in">>, <<"delay", "wttr.in">>,
      <<"invoke", "WeatherAPI">>, <<"get", "WeatherAPI">>, <<"delay", "WeatherAPI">>>>

\* get_all_weather_data has returned: caching is off and every adapter got
\* one body of FormatPayloads from its first GET
InitFormat ==
    /\ enable_cache = FALSE
    /\ city \in Cities
    /\ hashseed \in EarlierSeeds
    /\ disk = <<>>
    /\ now = Len(api_functions) * request_delay
    /\ pc = "done"
    /\ idx = Len(api_functions)
    /\ frame = [url |-> RequestOf("WeatherAPI", city).url,
                params |-> RequestOf("WeatherAPI", city).params,
                attempt |-> 0, cache_file |-> None, caller |-> "WeatherAPI"]
    /\ \E a \in FormatPayloads("Open-Meteo"), b \in FormatPayloads("wttr.in"),
          c \in FormatPayloads("WeatherAPI") :
        /\ retval = c
        /\ outcome = [name \in ProviderNames |->
                        CASE name = "Open-Meteo" -> AdapterResult(name, a, city)
                          [] name = "wttr.in"    -> AdapterResult(name, b, city)
                          [] name = "WeatherAPI" -> AdapterResult(name, c, city)]
        /\ results = Collect(Collect(Collect(<<>>, "Open-Meteo",
                                                AdapterResult("Open-Meteo", a, city)),
                                     "wttr.in", AdapterResult("wttr.in", b, city)),
                             "WeatherAPI", AdapterResult("WeatherAPI", c, city))
    /\ log = <<"get:ok">>
    /\ trace = OneGetEach
    /\ calls = 1

NextFormat == Report

SpecFormat == InitFormat /\ [][NextFormat]_vars

----------------------------------------------------------------------------
(* The claims *)

IsReading(x) == x.k = "reading"
Successes == {name \in ProviderNames : IsReading(outcome[name])}
ResultKeys == {results[i][1] : i \in 1..Len(results)}
Invoked == {trace[i][2] : i \in {j \in 1..Len(trace) : trace[j][1] = "invoke"}}

\* C1: whatever the three adapters do (return a reading, return None, raise,
\* run out of retries), get_all_weather_data returns normally; every adapter
\* was invoked, and the mapping holds exactly the providers whose adapter
\* returned a reading, each with that reading.
C1_AggregatorIsolation ==
    /\ pc # "raised"
    /\ pc = "done" =>
        /\ Invoked = ProviderNames
        /\ \A name \in ProviderNames : outcome[name] # NotRun
        /\ ResultKeys = Successes
        /\ Len(results) = Cardinality(Successes)
        /\ \A i \in 1..Len(results) : results[i][2] = outcome[results[i][1]]

\* C1 witness: the second adapter raised, the first and the third are in the result
C1_Witness ==
    /\ pc = "done"
    /\ IsReading(outcome["Open-Meteo"])
    /\ IsExc(outcome["wttr.in"])
    /\ IsReading(outcome["WeatherAPI"])
    /\ ResultKeys = {"Open-Meteo", "WeatherAPI"}

\* C2 (as claimed): no adapter lets an exception escape to its caller,
\* whatever value _make_request returned.
C2_NoExceptionEscapes ==
    \A name \in ProviderNames : ~IsExc(outcome[name])

IsGet(e) == e \in {"get:ok"} \cup {"get:" \o failure : failure \in Failures}
GetsUpTo(n) == Cardinality({i \in 1..n : IsGet(log[i])})

\* C3: one _make_request issues at most retry_attempts GETs; a GET after the
\* first directly follows one backoff sleep that directly follows a timeout
\* of a round that was not the last; a timeout of the last round is the end
\* of the call, which returns None.
C3_BoundedRetry ==
    /\ GetsUpTo(Len(log)) <= retry_attempts
    /\ \A i \in 1..Len(log) :
        /\ (IsGet(log[i]) /\ GetsUpTo(i - 1) > 0) =>
                (i >= 3 /\ log[i - 1] = "sleep" /\ log[i - 2] = "get:timeout")
        /\ log[i] = "sleep" =>
                (i >= 2 /\ log[i - 1] = "get:timeout" /\ GetsUpTo(i) < retry_attempts)
        /\ (log[i] = "get:timeout" /\ GetsUpTo(i) = retry_attempts) =>
                (i = Len(log) /\ pc \notin {"attempt", "backoff"} /\ retval = None)

\* C3 witness: two timeouts with one sleep between them, and None returned
C3_Witness ==
    /\ log = <<"get:timeout", "sleep", "get:timeout">>
    /\ pc = "idle"
    /\ retval = None

\* C4: a connection error, a non-2xx status or an undecodable body ends the
\* call at once with None, in whichever round it happens: nothing is logged
\* after it.
C4_NoRetryOfOtherFailures ==
    \A i \in 1..Len(log) :
        log[i] \in {"get:connection_error", "get:http_error", "get:decode_error"} =>
            (i = Len(log) /\ pc \notin {"attempt", "backoff"} /\ retval = None)

\* C4 witness: the second round ends in a non-2xx status
C4_Witness ==
    /\ log = <<"get:timeout", "sleep", "get:http_error">>
    /\ pc = "idle"
    /\ retval = None

C5_BadUrl(url) ==
    \/ url = None
    \/ url.v = ""
    \/ /\ ~StartsWith(Chars(url.v), <<"h","t","t","p",":","/","/">>)
       /\ ~StartsWith(Chars(url.v), <<"h","t","t","p","s",":","/","/">>)

\* C5: a call of _make_request with an empty url or one that begins with
\* neither http:// nor https:// returns None with no GET and no access to
\* the cache, with caching on or off.
C5_UrlValidationFirst ==
    (frame.caller = "direct" /\ C5_BadUrl(frame.url)) =>
        (pc = "idle" /\ retval = None /\ log = <<>> /\ frame.cache_file = None)

\* C5 witness: caching is on, a cache file exists, the url has another scheme
C5_Witness ==
    /\ enable_cache
    /\ DOMAIN disk # {}
    /\ frame.caller = "direct"
    /\ frame.url = Str("ftp://x")
    /\ retval = None

\* C6 (as claimed): every reading an adapter returns has a numeric
\* temperature and a non-empty description, source and city.
C6_ReadingValid ==
    \A name \in ProviderNames :
        IsReading(outcome[name]) =>
            /\ outcome[name].temperature.k = "num"
            /\ outcome[name].description.k = "str"
            /\ outcome[name].description.v # ""
            /\ outcome[name].source.k = "str"
            /\ outcome[name].source.v # ""
            /\ outcome[name].city.k = "str"
            /\ outcome[name].city.v # ""

\* The object that holds a provider's fields, in a payload of the documented
\* shape; None when the payload has another shape
C_Current(name, data) ==
    IF data.k # "dict" \/ TopKey(name) \notin DOMAIN data.v THEN None
    ELSE IF name # "wttr.in" THEN data.v[TopKey(name)]
    ELSE IF data.v[TopKey(name)].k = "list" /\ Len(data.v[TopKey(name)].v) > 0
         THEN data.v[TopKey(name)].v[1]
    ELSE None

\* The fetch result is absent, or has no top-level key (for wttr.in: or an
\* empty one), or its fields have no temperature or a null one
C7_Void(name, data) ==
    \/ data = None
    \/ data.k # "dict"
    \/ TopKey(name) \notin DOMAIN data.v
    \/ /\ name = "wttr.in"
       /\ data.v[TopKey(name)] \in {None, List(<<>>), EmptyDict, Str("")}
    \/ /\ C_Current(name, data).k = "dict"
       /\ \/ FieldKeys(name)[1] \notin DOMAIN C_Current(name, data).v
          \/ C_Current(name, data).v[FieldKeys(name)[1]] = None

\* C7: when the fetch result is absent, lacks the top-level key, or its
\* fields lack the temperature or have it null, the adapter returns None
\* and raises nothing, whatever the other fields are.
C7_RequiredField ==
    (pc = "delay" /\ C7_Void(frame.caller, retval)) =>
        outcome[frame.caller] = None

\* C7 witness: wttr.in sent no temp_C and unusable other fields
C7_Witness ==
    /\ pc = "delay"
    /\ frame.caller = "wttr.in"
    /\ retval = Payload("wttr.in",
                        <<Absent, Str("x"), Str("x"), Absent, None, Absent, Absent>>)
    /\ outcome["wttr.in"] = None

\* The payload has the documented shape, a numeric temperature, and every
\* other field either absent or of the documented kind
C8_Documented(name, data) ==
    LET cur == C_Current(name, data)
        keys == FieldKeys(name)
    IN  /\ cur.k = "dict"
        /\ keys[1] \in DOMAIN cur.v
        /\ cur.v[keys[1]] \in {Num(0), Str("12")}
        /\ \A i \in 2..6 : keys[i] \in DOMAIN cur.v => cur.v[keys[i]].k = "num"
        /\ keys[7] \in DOMAIN cur.v =>
                cur.v[keys[7]] \in {Num(30), Num(2000), DescOf(name, Str("Sunny")),
                                    DescOf(name, Absent)}

\* C8: from a payload with the top-level key and a numeric temperature, the
\* adapter returns a reading in which every absent optional field has its
\* default (feels_like the temperature, the other numbers 0, the description
\* "Unknown"), the source is the adapter's name and the city the configured one.
C8_Defaults ==
    (pc = "delay" /\ C8_Documented(frame.caller, retval)) =>
        LET r == outcome[frame.caller]
            cur == C_Current(frame.caller, retval)
            keys == FieldKeys(frame.caller)
            missing(i) == keys[i] \notin DOMAIN cur.v
        IN  /\ IsReading(r)
            /\ r.temperature = (IF cur.v[keys[1]] = Num(0) THEN Num(0) ELSE Num(120))
            /\ missing(2) => r.feels_like = r.temperature
            /\ missing(3) => r.humidity = Num(0)
            /\ missing(4) => r.pressure = Num(0)
            /\ missing(5) => r.wind_speed = Num(0)
            /\ missing(6) => r.wind_direction = Num(0)
            /\ (missing(7) \/ cur.v[keys[7]] = DescOf(frame.caller, Absent)) =>
                    r.description = Str("Unknown")
            /\ r.source = Str(frame.caller)
            /\ r.city = city

\* C8 witness: WeatherAPI sent a temperature of 0 and nothing else
C8_Witness ==
    /\ pc = "delay"
    /\ frame.caller = "WeatherAPI"
    /\ retval = Payload("WeatherAPI",
                        <<Num(0), Absent, Absent, Absent, Absent, Absent, Absent>>)
    /\ IsReading(outcome["WeatherAPI"])

\* A caller's call of _make_request: the step from idle into the call
C_CallStep == pc = "idle" /\ calls' = calls + 1 /\ frame'.caller = "direct"

\* C9 (as claimed): with caching on, a call that finds the entry an earlier
\* call stored (a JSON object or array; a null body is left out, it cannot
\* be told from a failure), younger than cache_ttl, returns the stored
\* payload without a GET; a call that finds it at the age of cache_ttl or
\* older goes to the network.
C9_CacheRoundTrip ==
    [][(/\ C_CallStep
        /\ enable_cache
        /\ frame'.cache_file # None
        /\ frame'.cache_file \in DOMAIN disk
        /\ disk[frame'.cache_file].content.kind = "json"
        /\ disk[frame'.cache_file].content.data # None)
       => IF now' - disk[frame'.cache_file].mtime < cache_ttl * Sec
          THEN /\ pc' = "idle"
               /\ retval' = disk[frame'.cache_file].content.data
               /\ log' = <<"cache_read">>
          ELSE pc' = "attempt"]_vars

\* C10 (as claimed): _load_cached_response raises nothing; when caching is
\* off, the entry does not exist, cannot be read or parsed, or has the age of
\* cache_ttl or more, _make_request goes on to the network.
C10_MissGoesToNetwork ==
    [][(C_CallStep /\ ~C5_BadUrl(frame'.url))
       => LET cache_file == _get_cache_key(frame'.url, frame'.params)
              hit == /\ enable_cache
                     /\ cache_file \in DOMAIN disk
                     /\ disk[cache_file].content.kind = "json"
                     /\ now' - disk[cache_file].mtime < cache_ttl * Sec
          IN  /\ ~IsExc(retval')
              /\ ~hit => pc' = "attempt"]_vars

\* The request of the running adapter issued no GET
C11_NoGet == \A i \in 1..Len(log) : ~IsGet(log[i])

\* C11 (as claimed): caching changes only how many GETs are issued.  In a
\* pass with caching on, a provider's request that issued no GET was answered
\* from a readable entry younger than cache_ttl, and the adapter's outcome is
\* what it makes of the stored payload; a cache read that fails is a miss and
\* the request goes to the network as it does with caching off.
C11_CacheTransparent ==
    (enable_cache /\ pc = "delay" /\ C11_NoGet) =>
        LET cache_file == frame.cache_file
        IN  /\ cache_file \in DOMAIN disk
            /\ disk[cache_file].content.kind = "json"
            /\ IsFresh(now - disk[cache_file].mtime)
            /\ outcome[frame.caller] =
                    AdapterResult(frame.caller, disk[cache_file].content.data, city)

\* The orders in which the three parameters of the WeatherAPI request can be built
C12_Orders ==
    {o \in [1..3 -> {"key", "q", "aqi"}] : \A i, j \in 1..3 : o[i] = o[j] => i = j}

\* The entries of the store that hold a usable payload, younger than
\* cache_ttl, for the url and the parameter name/value pairs of the running call
C12_Entries ==
    {f \in DOMAIN disk :
        /\ f.url = quote(frame.url.v, {})
        /\ f.hash # None
        /\ f.hash.items = ParamHash(frame.params, hashseed).items
        /\ disk[f].content.kind = "json"
        /\ Truthy(disk[f].content.data)
        /\ IsFresh(now - disk[f].mtime)}

\* C12 (as claimed): the key does not depend on the order the parameters
\* were built in; the requests of the three providers have three keys; and
\* the key is the same in every run, so that a call whose url and parameters
\* have a usable entry younger than cache_ttl, written by an earlier run,
\* finds it and does not go to the network.
C12_KeyDerivation ==
    /\ \A o \in C12_Orders :
            HashOfItems(ItemsInOrder(WeatherApiParams(city), o), hashseed)
                = ParamHash(WeatherApiParams(city), hashseed)
    /\ \A m, n \in ProviderNames :
            m # n => _get_cache_key(RequestOf(m, city).url, RequestOf(m, city).params)
                        # _get_cache_key(RequestOf(n, city).url, RequestOf(n, city).params)
    /\ (/\ enable_cache
        /\ frame.caller = "direct"
        /\ pc = "attempt"
        /\ frame.cache_file # None
        /\ frame.params # None) => C12_Entries = {}

\* The order the claim gives, and a provider's place in it
C13_Order == <<"Open-Meteo", "wttr.in", "WeatherAPI">>
C13_Place(name) == CHOOSE i \in 1..Len(C13_Order) : C13_Order[i] = name
C13_IsInvoke(e) == e[1] = "invoke"

\* C13: the adapters are invoked in the order Open-Meteo, wttr.in,
\* WeatherAPI; every GET and backoff sleep of an adapter lies between its
\* invocation and its pause; an invocation after the first directly follows
\* the pause of the adapter before it; and the mapping lists the providers
\* that succeeded in the order of invocation.
C13_Sequential ==
    LET invokes == SelectSeq(trace, C13_IsInvoke)
    IN  /\ Len(invokes) <= Len(C13_Order)
        /\ \A i \in 1..Len(invokes) : invokes[i][2] = C13_Order[i]
        /\ \A i \in 1..Len(trace) :
            /\ trace[i][1] = "invoke" => (i = 1 \/ trace[i - 1][1] = "delay")
            /\ trace[i][1] \in {"get", "sleep", "delay"} =>
                    /\ i > 1
                    /\ trace[i - 1][1] \in {"invoke", "get", "sleep"}
                    /\ trace[i - 1][2] = trace[i][2]
        /\ \A i, j \in 1..Len(results) :
                i < j => C13_Place(results[i][1]) < C13_Place(results[j][1])
        /\ pc = "done" =>
                /\ Len(invokes) = Len(C13_Order)
                /\ trace[Len(trace)] = <<"delay", C13_Order[Len(C13_Order)]>>

\* C13 witness: the pass is over; wttr.in timed out, slept and failed again,
\* and the mapping holds Open-Meteo before WeatherAPI
C13_Witness ==
    /\ pc = "done"
    /\ \E i \in 1..Len(trace) : trace[i] = <<"sleep", "wttr.in">>
    /\ Len(results) = 2
    /\ results[1][1] = "Open-Meteo"
    /\ results[2][1] = "WeatherAPI"

\* main() passes the mapping to format_weather_report
C14_ReportStep == pc = "done" /\ pc' = "reported"

\* C14 (as claimed): format_weather_report raises for no mapping that
\* get_all_weather_data returns and leaves the mapping as it was; an empty
\* mapping gives the fixed message, another one a report with one block per
\* provider, in the mapping's order, and a summary.
C14_FormatterTotal ==
    [][C14_ReportStep =>
        /\ results' = results
        /\ ~IsExc(retval')
        /\ results = <<>> => (retval' = Str(NoDataText) /\ NoDataText # "")
        /\ results # <<>> =>
            /\ retval'.k = "report"
            /\ Len(retval'.blocks) = Len(results)
            /\ \A i \in 1..Len(results) : retval'.blocks[i].source = results[i][1]
            /\ retval'.count = Len(results)]_vars

\* The temperatures of the mapping, in tenths
C15_Temps == [i \in 1..Len(results) |-> results[i][2].temperature]

\* C15: the summary of a report gives the number of entries of the mapping
\* as the count of sources, and as the average the arithmetic mean of the
\* temperatures of all its readings, to one decimal (inf when one is inf).
C15_Summary ==
    (pc = "reported" /\ retval.k = "report") =>
        /\ retval.count = Len(results)
        /\ IF \E i \in 1..Len(results) : C15_Temps[i] = Inf
           THEN retval.average = Str("inf")
           ELSE LET diff == Len(results) * retval.average.v - SumOf(C15_Temps)
                IN  /\ 2 * diff <= Len(results)
                    /\ 2 * diff >= 0 - Len(results)

\* C15 witness: temperatures of 10, 20 and 30 give an average of 20.0 and
\* three sources
C15_Witness ==
    /\ pc = "reported"
    /\ retval.k = "report"
    /\ C15_Temps = <<Num(100), Num(200), Num(300)>>
    /\ retval.average = Num(200)
    /\ retval.count = 3

\* The codes of the table as the claim lists them, and the four
\* descriptions the specification spells out
C16_TableCodes ==
    {0, 1, 2, 3, 45, 48, 51, 53, 55, 56, 57, 61, 63, 65, 66, 67, 71, 73, 75, 77,
     80, 81, 82, 85, 86, 95, 96, 99}
C16_Spelled ==
    [code \in {0, 1, 2, 3} |->
        CASE code = 0 -> "Clear sky" [] code = 1 -> "Mainly clear"
          [] code = 2 -> "Partly cloudy" [] code = 3 -> "Overcast"]

\* Open-Meteo has answered with a numeric temperature and humidity, and a
\* weather_code that is a whole number, null or absent
C16_Case ==
    /\ pc = "delay"
    /\ frame.caller = "Open-Meteo"
    /\ C_Current("Open-Meteo", retval).k = "dict"
    /\ LET cur == C_Current("Open-Meteo", retval).v
       IN  /\ "temperature_2m" \in DOMAIN cur
           /\ cur["temperature_2m"] \in {Num(0), Str("12")}
           /\ \A key \in DOMAIN cur \ {"temperature_2m", "weather_code"} :
                    cur[key].k = "num"
           /\ "weather_code" \in DOMAIN cur =>
                    \/ cur["weather_code"] = None
                    \/ cur["weather_code"].k = "num" /\ cur["weather_code"].v % 10 = 0

\* C16: get_open_meteo gives every code of the table its description (3
\* gives "Overcast"), and every other whole code, a null and an absent
\* weather_code the description "Unknown"; the reading is returned in each case.
C16_CodeLookupTotal ==
    C16_Case =>
        LET cur == C_Current("Open-Meteo", retval).v
            r == outcome["Open-Meteo"]
            coded == "weather_code" \in DOMAIN cur /\ cur["weather_code"] # None
            code == cur["weather_code"].v \div 10
        IN  /\ IsReading(r)
            /\ r.description.k = "str"
            /\ IF coded /\ code \in C16_TableCodes
               THEN /\ r.description.v = open_meteo_weather_codes[code]
                    /\ r.description.v # "Unknown"
                    /\ code \in DOMAIN C16_Spelled => r.description.v = C16_Spelled[code]
               ELSE r.description.v = "Unknown"

\* C16 witness: code 200 is outside the table and the reading is returned
\* with "Unknown"
C16_Witness ==
    /\ C16_Case
    /\ "weather_code" \in DOMAIN C_Current("Open-Meteo", retval).v
    /\ C_Current("Open-Meteo", retval).v["weather_code"] = Num(2000)
    /\ IsReading(outcome["Open-Meteo"])
    /\ outcome["Open-Meteo"].description = Str("Unknown")

\* C17: a step changes the cache files only when it is the round of a
\* _make_request, with caching on, whose GET returned a body: then the one
\* file it writes is the file of the request's own key, holding that body,
\* and every other file is as it was.  A call that ends in a failure, an
\* invalid url or a cache hit changes no file, and with caching off no file
\* is read or written.
C17_WritesOnlyOnFetch ==
    [][/\ disk' # disk =>
            /\ enable_cache
            /\ pc = "attempt"
            /\ Len(log') >= 2
            /\ log'[Len(log') - 1] = "get:ok"
            /\ log'[Len(log')] = "cache_write"
            /\ frame.cache_file = _get_cache_key(frame.url, frame.params)
            /\ DOMAIN disk' = DOMAIN disk \cup {frame.cache_file}
            /\ disk'[frame.cache_file].content = JsonText(retval')
            /\ \A f \in DOMAIN disk \ {frame.cache_file} : disk'[f] = disk[f]
       /\ ~enable_cache =>
            \A i \in 1..Len(log') : log'[i] \notin {"cache_read", "cache_write"}
      ]_vars

\* C17 witness: a call that missed has fetched a body and stored it under
\* its own key, next to a file that was there before
C17_Witness ==
    /\ enable_cache
    /\ pc = "idle"
    /\ log = <<"cache_read", "get:ok", "cache_write">>
    /\ frame.params # None
    /\ frame.cache_file \in DOMAIN disk
    /\ disk[frame.cache_file].content = JsonText(retval)
    /\ Cardinality(DOMAIN disk) = 2

\* C18: every key of the mapping is one of the three provider names, the
\* reading under a key has that key as its source, and its city is the
\* configured city.
C18_KeysMatchReadings ==
    \A i \in 1..Len(results) :
        /\ results[i][1] \in {"Open-Meteo", "wttr.in", "WeatherAPI"}
        /\ IsReading(results[i][2])
        /\ results[i][2].source = Str(results[i][1])
        /\ results[i][2].city = city

\* C18 witness: the pass is over with three readings, one of them made from
\* a cached payload
C18_Witness ==
    /\ pc = "done"
    /\ Len(results) = 3
    /\ enable_cache
    /\ \E i \in 1..Len(trace) : trace[i] = <<"get", "wttr.in">>
    /\ \A i \in 1..Len(trace) : trace[i] # <<"get", "Open-Meteo">>

\* The payload has the documented shape and a numeric temperature, and one
\* of its five optional numeric fields is null or a text that is no number
C19_Case(name, data) ==
    LET cur == C_Current(name, data)
        keys == FieldKeys(name)
    IN  /\ cur.k = "dict"
        /\ keys[1] \in DOMAIN cur.v
        /\ cur.v[keys[1]] \in {Num(0), Str("12")}
        /\ \E i \in 2..6 : keys[i] \in DOMAIN cur.v /\ cur.v[keys[i]] \in {None, Str("x")}

\* C19: from a payload with a numeric temperature in which an optional
\* numeric field is present but null or not a number, the adapter returns
\* None: no reading, and nothing raised.
C19_BadOptionalVoids ==
    (pc = "delay" /\ C19_Case(frame.caller, retval)) =>
        outcome[frame.caller] = None

\* C19 witness: WeatherAPI sent a temperature of 0 and a null pressure
C19_Witness ==
    /\ pc = "delay"
    /\ frame.caller = "WeatherAPI"
    /\ retval = Payload("WeatherAPI",
                        <<Num(0), Absent, Num(70), None, Absent, Absent, Absent>>)
    /\ outcome["WeatherAPI"] = None

\* How many events of one kind a provider has in the trace of the pass
C20_Count(kind, name) ==
    Cardinality({i \in 1..Len(trace) : trace[i] = <<kind, name>>})

\* The work a pass has done: its events, and whether it has started and
\* whether an adapter has returned and is not yet paused for
C20_Work ==
    2 * Len(trace) + (IF pc = "idle" THEN 0 ELSE 1) + (IF pc = "delay" THEN 1 ELSE 0)

\* The most events a pass can have: for each adapter its invocation, its
\* GETs, the sleeps between them and its pause
C20_MostEvents == Len(api_functions) * (2 + retry_attempts + (retry_attempts - 1))

\* Before the pass is over a step can be taken.  Invoke and AdapterFinish
\* have no guard but their place in the loop
C20_CanStep ==
    \/ pc = "idle" /\ ENABLED get_all_weather_data
    \/ pc = "invoke" /\ idx \in DOMAIN api_functions
    \/ pc = "attempt" /\ ENABLED Attempt
    \/ pc = "backoff" /\ ENABLED Backoff
    \/ pc = "fetched" /\ frame.caller \in ProviderNames
    \/ pc = "delay" /\ ENABLED Delay

\* C20: get_all_weather_data returns when every GET returns or times out:
\* until the pass is over a step can be taken, every step adds to the work
\* done, and the work is bounded.  In a pass no provider gets more than
\* retry_attempts GETs, none is invoked twice, and none is paused for before
\* it was invoked; when the pass is over each adapter was invoked once and
\* paused for once, whatever it did.
C20_Termination ==
    /\ [](pc = "done" \/ C20_CanStep)
    /\ [][C20_Work' > C20_Work]_vars
    /\ [](Len(trace) <= C20_MostEvents)
    /\ [](\A name \in ProviderNames :
            /\ C20_Count("get", name) <= retry_attempts
            /\ C20_Count("invoke", name) <= 1
            /\ C20_Count("delay", name) <= C20_Count("invoke", name))
    /\ [](pc = "done" =>
            /\ \A name \in ProviderNames :
                /\ C20_Count("invoke", name) = 1
                /\ C20_Count("delay", name) = 1
            /\ Cardinality({i \in 1..Len(trace) : trace[i][1] = "get"})
                    <= Len(api_functions) * retry_attempts)

\* C20 witness: the pass is over; the first adapter used both of its GETs,
\* the second raised, the third returned nothing
C20_Witness ==
    /\ pc = "done"
    /\ C20_Count("get", "Open-Meteo") = retry_attempts
    /\ IsExc(outcome["wttr.in"])
    /\ outcome["WeatherAPI"] = None

====
